---- MODULE Spec2Model ----
(***************************************************************************)
(* The WebSocket bridge of chrome-cursor-mcp: BridgeServer.handle_client   *)
(* (src/server/src/chrome_mcp/bridge.py) run as one asyncio task per       *)
(* accepted connection.  A task runs uninterrupted between two awaits, so  *)
(* each action below is the code between one await and the next:           *)
(* `async for raw in ws` (receive) and `await self.safe_send(...)`.        *)
(***************************************************************************)
EXTENDS Naturals, Sequences, FiniteSets, TLC

\* ---------------------------------------------------------------- bounds
MaxId == 2          \* distinct correlation ids the peers choose from
MaxCalls == 2       \* calls of ChromeMCPServer.send_tool_request

\* ---------------------------------------------------------------- values
Conns == {"a", "b", "c"}    \* the connection objects (ws) the server accepts
None == "none"              \* Python's None
Absent == "absent"          \* a key the JSON object does not carry

NoId == [t |-> Absent, v |-> 0]
IdVals == {[t |-> "str", v |-> k] : k \in 1..MaxId}

\* a faulty str that keeps numbers apart from strings
StrKeepsType(id) == IF id.t = "num" THEN id.v + MaxId + Cardinality(Conns) ELSE id.v
\* str(msg.get("id")): the key of pending_by_id (the numeral the id spells)
Str(id) == id.v

\* A parsed JSON value: an object with the keys the bridge looks at ("args" /
\* "result" are the opaque payload, field data), or a value that is no object.
Obj(event, tool, id, ok, error, data) ==
    [type |-> "object", event |-> event, tool |-> tool, id |-> id,
     ok |-> ok, error |-> error, data |-> data]
Scalar ==
    [type |-> "scalar", event |-> Absent, tool |-> Absent, id |-> NoId,
     ok |-> Absent, error |-> Absent, data |-> Absent]

\* A text frame: its JSON value and how it is spelled.  "py" is the spelling of
\* Python's json.dumps (", " and ": " separators), "js" the compact spelling of
\* JSON.stringify (the extension), "bad" a text that is not JSON at all.
Raw(text, val) == [text |-> text, val |-> val]
Garbage == Raw("bad", Scalar)
NoFrame == Raw("none", Scalar)      \* nothing waits to be read

\* json.loads(raw): raises on a text that is not JSON, else the value; the
\* spelling is lost.
LoadsFails(raw) == raw.text = "bad"
Loads(raw) == raw.val
\* a faulty json.dumps that loses the payload
DumpsBroken(msg) == Raw("py", [msg EXCEPT !.data = Absent])
\* json.dumps(msg): always Python's spelling.
Dumps(msg) == Raw("py", msg)

\* The shapes handle_client tests, in the order of its if-chain.
IsHello(msg) == msg.type = "object" /\ msg.event = "hello"
IsEvent(msg) == msg.type = "object" /\ msg.event \notin {Absent, ""}
\* faulty tests: a request only without an outcome field, a reply whatever the
\* object carries
IsRequestNoOutcome(msg) ==
    /\ msg.type = "object" /\ msg.tool # Absent /\ msg.id # NoId
    /\ msg.ok = Absent /\ msg.error = Absent
IsReplyAnyObject(msg) == msg.type = "object"
IsRequest(msg) == msg.type = "object" /\ msg.tool # Absent /\ msg.id # NoId
IsReply(msg) ==
    msg.type = "object" /\ msg.id # NoId /\ (msg.ok # Absent \/ msg.error # Absent)

\* a faulty error_response that does not echo the id
error_response_no_id(msg) ==
    Obj(Absent, Absent, NoId, "false", "extension not connected", Absent)
\* error_response = {"id": msg.get("id"), "ok": False, "error": ...}
error_response(msg) ==
    Obj(Absent, Absent, msg.id, "false", "extension not connected", Absent)

\* ---------------------------------------------------------------- frames of the peers
Hello == Raw("js", Obj("hello", Absent, NoId, Absent, Absent, Absent))
LogEvent == Raw("js", Obj("log", Absent, NoId, Absent, Absent, Absent))
EmptyObject == Raw("py", Obj(Absent, Absent, NoId, Absent, Absent, Absent))
\* a controller's request; its payload names the connection that issued it
Request(id, c) == Raw("py", Obj(Absent, "navigate", id, Absent, Absent, c))
\* the extension's answer to a request it received: same id, the payload echoed
ReplyFor(req) == Raw("js", Obj(Absent, Absent, req.id, "true", Absent, req.data))
\* a reply-shaped frame that answers no request
ForgedReply(id) == Raw("js", Obj(Absent, Absent, id, "true", Absent, "forged"))

VARIABLES
    extension_ws,       \* BridgeServer.extension_ws
    controller_clients, \* BridgeServer.controller_clients
    pending_by_id,      \* BridgeServer.pending_by_id: key -> ws
    is_extension,       \* handle_client's local is_extension, per connection
    pc,                 \* where each connection's handler task stands
    out,                \* the safe_send a handler is suspended in
    ws,                 \* transport state of each connection
    stalled,            \* open connections whose peer has stopped reading
    inbox,              \* the frame a peer sent while its handler was suspended
    owed,               \* the requests each peer has received and not answered
    inflight,           \* key -> connection whose request with it awaits an answer
    broken,             \* the peers have left the protocol: see EmitBroken
    last,               \* the safe_send call the last step made or completed, if any
    calls,              \* the tool invocations (_send), by the connection each opened
    websocket,          \* ChromeMCPServer.websocket
    connected,          \* ChromeMCPServer.connected
    message_id,         \* ChromeMCPServer.message_id
    pending_requests,   \* the keys of ChromeMCPServer.pending_requests
    socket,             \* the connections ChromeMCPServer accepts, and their handlers
    request,            \* the calls of send_tool_request, by message id
    refused             \* the last call of send_tool_request raised "not connected"

vars == <<extension_ws, controller_clients, pending_by_id, is_extension, pc, out,
          ws, stalled, inbox, owed, inflight, broken, last, calls,
          websocket, connected, message_id, pending_requests, socket, request,
          refused>>

bridge == <<extension_ws, controller_clients, pending_by_id>>

\* the state of the MCP server of src/mcp_server.py, which the bridges never touch
mcp == <<websocket, connected, message_id, pending_requests, socket, request, refused>>

Keys == 1..(MaxId + Cardinality(Conns))
NoPending == [k \in {} |-> None]
NoOwed == [c \in Conns |-> {}]

\* A call of safe_send: the handler c that made it, for which operation ("error",
\* "forward", "reply"), the frame it had read, to whom, what, and how ws.send
\* ended ("sent", "raised" at once, "suspended", "failed" after a suspension).
\* The operation "drop" is a reply the response router read and sent nowhere.
Step(op, c, raw, to, data, res) ==
    [op |-> op, c |-> c, raw |-> raw, to |-> to, data |-> data, res |-> res]
NoOut == Step(None, None, NoFrame, None, NoFrame, "none")

\* A tool invocation: the request it sent, the connection that received the
\* forwarded request and has not answered it, and what conn.recv() returned.
Call(req, at, got) == [req |-> req, at |-> at, got |-> got]
NoCall == Call(NoFrame, None, NoFrame)

\* A call of send_tool_request: the state of its asyncio.Future ("pending",
\* "result", "exception", "cancelled") and where the call stands ("waiting" in
\* wait_for, or how it ended).
NoRequest == [fut |-> "none", call |-> "none"]

Init ==
    /\ extension_ws = None
    /\ controller_clients = {}
    /\ pending_by_id = NoPending
    /\ is_extension = [c \in Conns |-> FALSE]
    /\ pc = [c \in Conns |-> "idle"]
    /\ out = [c \in Conns |-> NoOut]
    /\ ws = [c \in Conns |-> "idle"]
    /\ stalled = {}
    /\ inbox = [c \in Conns |-> NoFrame]
    /\ owed = NoOwed
    /\ inflight = NoPending
    /\ broken = FALSE
    /\ last = NoOut
    /\ calls = [c \in Conns |-> NoCall]
    /\ websocket = None
    /\ connected = FALSE
    /\ message_id = 0
    /\ pending_requests = {}
    /\ socket = [c \in Conns |-> "idle"]
    /\ request = [i \in 1..MaxCalls |-> NoRequest]
    /\ refused = FALSE

\* ---------------------------------------------------------------- the peers
IsRequestFrame(f) == ~LoadsFails(f) /\ IsRequest(Loads(f))
IsReplyFrame(f) == ~LoadsFails(f) /\ IsReply(Loads(f)) /\ ~IsRequest(Loads(f))

\* A reply is genuine when it answers a request the peer has received from the
\* bridge and not answered yet.
Genuine(c, f) == \E q \in owed[c] : f = ReplyFor(q)

PeerFrames(c) ==
    {Hello, LogEvent, EmptyObject, Garbage}
        \cup {Request(i, c) : i \in IdVals}
        \cup {ReplyFor(q) : q \in owed[c]}
        \cup {ForgedReply(i) : i \in IdVals}

\* what the peers have done once the peer of c has sent f
\* f is a request that reuses a key still in flight
Clash(f) == IsRequestFrame(f) /\ Str(f.val.id) \in DOMAIN inflight
\* f is a reply that answers nothing its sender has received
Spoofed(c, f) == IsReplyFrame(f) /\ ~Genuine(c, f)
EmitBroken(c, f) == broken \/ Clash(f) \/ Spoofed(c, f)
EmitOwed(c, f) == [owed EXCEPT ![c] = {q \in @ : ReplyFor(q) # f}]
EmitInflight(c, f) ==
    IF IsRequestFrame(f)
    THEN [k \in DOMAIN inflight \cup {Str(f.val.id)} |->
            IF k = Str(f.val.id) THEN c ELSE inflight[k]]
    ELSE inflight

\* owed and inflight are kept while the peers keep the protocol; after that
\* they say nothing and are emptied.
KeepOwed(br, ow) == IF br THEN NoOwed ELSE ow
KeepInflight(br, infl) == IF br THEN NoPending ELSE infl

\* The connection objects are interchangeable: they are accepted in one order.
Earlier(c) == IF c = "a" THEN {} ELSE IF c = "b" THEN {"a"} ELSE {"a", "b"}

\* websockets.serve accepts a connection and starts handle_client on it, which
\* runs to its first await.
Connect(c) ==
    /\ ws[c] = "idle"
    /\ \A x \in Earlier(c) : ws[x] # "idle"
    /\ ws' = [ws EXCEPT ![c] = "open"]
    /\ is_extension' = [is_extension EXCEPT ![c] = FALSE]
    /\ controller_clients' = controller_clients \cup {c}
    /\ pc' = [pc EXCEPT ![c] = "recv"]
    /\ last' = NoOut
    /\ UNCHANGED <<extension_ws, pending_by_id, out, stalled, inbox, owed, inflight,
                   broken, calls, mcp>>

\* A reply arrives while the handler is suspended in a send: it waits.
PeerSend(c, f) ==
    /\ ws[c] = "open"
    /\ pc[c] = "send"
    /\ inbox[c] = NoFrame
    /\ f \in PeerFrames(c)
    /\ Genuine(c, f)
    /\ inbox' = [inbox EXCEPT ![c] = f]
    /\ broken' = EmitBroken(c, f)
    /\ owed' = KeepOwed(broken', EmitOwed(c, f))
    /\ inflight' = KeepInflight(broken', EmitInflight(c, f))
    /\ last' = NoOut
    /\ UNCHANGED <<bridge, is_extension, pc, out, ws, stalled, calls, mcp>>

PeerClose(c) ==
    /\ ws[c] = "open"
    /\ ws' = [ws EXCEPT ![c] = "closed"]
    /\ stalled' = stalled \ {c}
    /\ last' = NoOut
    /\ UNCHANGED <<bridge, is_extension, pc, out, inbox, owed, inflight, broken,
                   calls, mcp>>

\* The peer of a connection that awaits a reply stops reading: the transport's
\* write buffer is full, and a send to it does not complete while the connection
\* stays open and stalled.
Stall(c) ==
    /\ ws[c] = "open"
    /\ stalled = {}
    /\ \E k \in DOMAIN pending_by_id : pending_by_id[k] = c
    /\ stalled' = {c}
    /\ last' = NoOut
    /\ UNCHANGED <<bridge, is_extension, pc, out, ws, inbox, owed, inflight, broken, calls, mcp>>

\* ---------------------------------------------------------------- safe_send
\* what the peers owe and await once `data` has reached the peer of `to`
ArriveOwed(ow, to, data) ==
    IF IsRequest(data.val) THEN [ow EXCEPT ![to] = @ \cup {data.val}] ELSE ow
ArriveInflight(infl, to, data) ==
    IF IsReplyFrame(data) /\ Str(data.val.id) \in DOMAIN infl
       /\ infl[Str(data.val.id)] = to
    THEN [j \in DOMAIN infl \ {Str(data.val.id)} |-> infl[j]]
    ELSE infl

\* how ws.send(data) on `to` ends when it is calls: it returns at once when the
\* connection is open and its write buffer has room, raises at once when the
\* connection is closed, and suspends the caller otherwise.
SendResult(to) ==
    IF ws[to] # "open" THEN "raised"
    ELSE IF to \in stalled THEN "suspended"
    ELSE "sent"

\* the frame is read (and was sent in this step unless it had waited)
Read(c, raw) ==
    /\ inbox' = [inbox EXCEPT ![c] = NoFrame]
    /\ broken' = IF inbox[c] = NoFrame THEN EmitBroken(c, raw) ELSE broken
    /\ UNCHANGED <<ws, stalled>>
OwedAfterRead(c, raw) == IF inbox[c] = NoFrame THEN EmitOwed(c, raw) ELSE owed
InflightAfterRead(c, raw) == IF inbox[c] = NoFrame THEN EmitInflight(c, raw) ELSE inflight

\* a faulty safe_send that lets the exception of ws.send end the handler's loop
safe_send_raises(op, c, raw, to, data) ==
    /\ Read(c, raw)
    /\ last' = Step(op, c, raw, to, data, SendResult(to))
    /\ owed' = KeepOwed(broken',
                        IF SendResult(to) = "sent"
                        THEN ArriveOwed(OwedAfterRead(c, raw), to, data)
                        ELSE OwedAfterRead(c, raw))
    /\ inflight' = KeepInflight(broken',
                                IF SendResult(to) = "sent"
                                THEN ArriveInflight(InflightAfterRead(c, raw), to, data)
                                ELSE InflightAfterRead(c, raw))
    /\ pc' = [pc EXCEPT ![c] = IF SendResult(to) = "raised" THEN "done" ELSE "recv"]
    /\ UNCHANGED out
\* `await self.safe_send(to, data)` in the handler of c, which read `raw`; an
\* exception of ws.send is swallowed.
safe_send(op, c, raw, to, data) ==
    /\ Read(c, raw)
    /\ last' = Step(op, c, raw, to, data, SendResult(to))
    /\ owed' = KeepOwed(broken',
                        IF SendResult(to) = "sent"
                        THEN ArriveOwed(OwedAfterRead(c, raw), to, data)
                        ELSE OwedAfterRead(c, raw))
    /\ inflight' = KeepInflight(broken',
                                IF SendResult(to) = "sent"
                                THEN ArriveInflight(InflightAfterRead(c, raw), to, data)
                                ELSE InflightAfterRead(c, raw))
    /\ IF SendResult(to) = "suspended"
          THEN /\ pc' = [pc EXCEPT ![c] = "send"]
               /\ out' = [out EXCEPT ![c] = Step(op, c, raw, to, data, "suspended")]
          ELSE UNCHANGED <<pc, out>>

\* the suspended ws.send returned: the peer has read again
SendOk(c) ==
    /\ pc[c] = "send"
    /\ ws[out[c].to] = "open"
    /\ stalled' = stalled \ {out[c].to}
    /\ last' = [out[c] EXCEPT !.res = "sent"]
    /\ owed' = KeepOwed(broken, ArriveOwed(owed, out[c].to, out[c].data))
    /\ inflight' = KeepInflight(broken,
                                ArriveInflight(inflight, out[c].to, out[c].data))
    /\ pc' = [pc EXCEPT ![c] = "recv"]
    /\ out' = [out EXCEPT ![c] = NoOut]
    /\ UNCHANGED <<bridge, is_extension, ws, inbox, broken, calls, mcp>>

\* the suspended ws.send raised (the connection was closed meanwhile): swallowed
SendFail(c) ==
    /\ pc[c] = "send"
    /\ ws[out[c].to] # "open"
    /\ last' = [out[c] EXCEPT !.res = "failed"]
    /\ pc' = [pc EXCEPT ![c] = "recv"]
    /\ out' = [out EXCEPT ![c] = NoOut]
    /\ UNCHANGED <<bridge, is_extension, ws, stalled, inbox, owed, inflight, broken, calls, mcp>>

\* ---------------------------------------------------------------- handle_client
\* `async for raw in ws` yields the next frame: the one that waited while the
\* handler was suspended (also after the connection has closed), else the one
\* the peer sends now.
ArrivingOf(c, frames) ==
    IF pc[c] # "recv" THEN {}
    ELSE IF inbox[c] # NoFrame THEN {inbox[c]}
    ELSE IF ws[c] = "open" THEN frames
    ELSE {}
Arriving(c) == ArrivingOf(c, PeerFrames(c))

\* `continue`: back to the receive with nothing sent
Continue(c, raw) ==
    /\ Read(c, raw)
    /\ owed' = KeepOwed(broken', OwedAfterRead(c, raw))
    /\ inflight' = KeepInflight(broken', InflightAfterRead(c, raw))
    /\ last' = NoOut
    /\ UNCHANGED <<pc, out>>

\* json.loads(raw) raised
OnUnparsed(c, raw) ==
    /\ LoadsFails(raw)
    /\ Continue(c, raw)
    /\ UNCHANGED <<bridge, is_extension>>

HandleUnparsed(c) ==
    \E raw \in Arriving(c) :
        /\ OnUnparsed(c, raw)
        /\ UNCHANGED <<calls, mcp>>

\* a faulty hello that leaves the sender in the controller set
ControllersAfterHelloKept(c) == controller_clients
\* self.controller_clients.discard(ws)
ControllersAfterHello(c) == controller_clients \ {c}

\* {"event": "hello"}: this connection becomes the extension
OnHello(c, raw) ==
    /\ ~LoadsFails(raw)
    /\ IsHello(Loads(raw))
    /\ is_extension' = [is_extension EXCEPT ![c] = TRUE]
    /\ controller_clients' = ControllersAfterHello(c)
    /\ extension_ws' = c
    /\ Continue(c, raw)
    /\ UNCHANGED pending_by_id

HandleHello(c) ==
    \E raw \in Arriving(c) :
        /\ OnHello(c, raw)
        /\ UNCHANGED <<calls, mcp>>

\* any other truthy event: ignored
OnEvent(c, raw) ==
    /\ ~LoadsFails(raw)
    /\ ~IsHello(Loads(raw))
    /\ IsEvent(Loads(raw))
    /\ Continue(c, raw)
    /\ UNCHANGED <<bridge, is_extension>>

HandleEvent(c) ==
    \E raw \in Arriving(c) :
        /\ OnEvent(c, raw)
        /\ UNCHANGED <<calls, mcp>>

\* faulty recordings: one that records nothing, one that keeps the entry an id
\* already has
RecordNothing(c, req_id) == pending_by_id
RecordKeepsFirst(c, req_id) ==
    [k \in DOMAIN pending_by_id \cup {req_id} |->
        IF k \in DOMAIN pending_by_id THEN pending_by_id[k] ELSE c]
\* self.pending_by_id[req_id] = ws
Record(c, req_id) ==
    [k \in DOMAIN pending_by_id \cup {req_id} |->
        IF k = req_id THEN c ELSE pending_by_id[k]]

\* a faulty forward to some connection that has sent hello, not to the slot's
ForwardTargetAnyHello(c) ==
    IF \E x \in Conns : is_extension[x]
    THEN CHOOSE x \in Conns : is_extension[x]
    ELSE extension_ws
\* the connection a request is forwarded to
ForwardTarget(c) == extension_ws

\* "tool" in msg and "id" in msg: the request router, on the frame `raw`
RouteRequest(c, raw) ==
    /\ ~LoadsFails(raw)
    /\ LET msg == Loads(raw) IN
        /\ ~IsHello(msg) /\ ~IsEvent(msg)
        /\ IsRequest(msg)
        /\ IF extension_ws = None
              THEN /\ safe_send("error", c, raw, c, Dumps(error_response(msg)))
                   /\ UNCHANGED <<bridge, is_extension>>
              ELSE /\ pending_by_id' = Record(c, Str(msg.id))
                   /\ safe_send("forward", c, raw, ForwardTarget(c), Dumps(msg))
                   /\ UNCHANGED <<extension_ws, controller_clients, is_extension>>

HandleRequest(c) ==
    \E raw \in Arriving(c) :
        /\ RouteRequest(c, raw)
        /\ UNCHANGED <<calls, mcp>>

\* faulty pops: one that takes any entry, one that keeps the entry
PopTargetAny(req_id) ==
    IF DOMAIN pending_by_id = {} THEN None
    ELSE pending_by_id[CHOOSE k \in DOMAIN pending_by_id : TRUE]
PopTargetUnlessDisplaced(req_id) ==
    IF req_id \in DOMAIN pending_by_id
       /\ \A c \in Conns : is_extension[c] => extension_ws = c
    THEN pending_by_id[req_id] ELSE None
PopRestKeeps(req_id) == pending_by_id
\* self.pending_by_id.pop(req_id, None): the value and what is left
PopTarget(req_id) ==
    IF req_id \in DOMAIN pending_by_id THEN pending_by_id[req_id] ELSE None
PopRest(req_id) == [k \in DOMAIN pending_by_id \ {req_id} |-> pending_by_id[k]]

\* a faulty drop that sends the reply back to its sender
DropEchoes(c, raw) == safe_send("reply", c, raw, c, raw)
\* `if target: ... else:` with no target: the reply is dropped, nothing is sent
Drop(c, raw) ==
    /\ Read(c, raw)
    /\ owed' = KeepOwed(broken', OwedAfterRead(c, raw))
    /\ inflight' = KeepInflight(broken', InflightAfterRead(c, raw))
    /\ last' = Step("drop", c, raw, None, NoFrame, "none")
    /\ UNCHANGED <<pc, out>>

\* "id" in msg and ("ok" in msg or "error" in msg): the response router, on the
\* frame `raw`
RouteReply(c, raw) ==
    /\ ~LoadsFails(raw)
    /\ LET msg == Loads(raw)
           target == PopTarget(Str(msg.id))
       IN
        /\ ~IsHello(msg) /\ ~IsEvent(msg) /\ ~IsRequest(msg)
        /\ IsReply(msg)
        /\ pending_by_id' = PopRest(Str(msg.id))
        /\ IF target # None
              THEN safe_send("reply", c, raw, target, Dumps(msg))
              ELSE Drop(c, raw)
        /\ UNCHANGED <<extension_ws, controller_clients, is_extension>>

HandleReply(c) ==
    \E raw \in Arriving(c) :
        /\ RouteReply(c, raw)
        /\ UNCHANGED <<calls, mcp>>

\* fallback: unknown shapes are ignored
OnUnknown(c, raw) ==
    /\ ~LoadsFails(raw)
    /\ LET msg == Loads(raw) IN
        ~IsHello(msg) /\ ~IsEvent(msg) /\ ~IsRequest(msg) /\ ~IsReply(msg)
    /\ Continue(c, raw)
    /\ UNCHANGED <<bridge, is_extension>>

HandleUnknown(c) ==
    \E raw \in Arriving(c) :
        /\ OnUnknown(c, raw)
        /\ UNCHANGED <<calls, mcp>>

\* ---------------------------------------------------------------- finally
\* faulty cleanups: one that leaves the slot as it is, one that empties the slot
\* whoever holds it
SlotAfterCleanupKept(c) == extension_ws
SlotAfterCleanupIfExtension(c) == IF is_extension[c] THEN None ELSE extension_ws
\* if is_extension and self.extension_ws is ws: self.extension_ws = None
SlotAfterCleanup(c) ==
    IF is_extension[c] /\ extension_ws = c THEN None ELSE extension_ws

\* faulty cleanups: one that drops every pending entry, one that drops none
PendingAfterCleanupAll(c) == NoPending
PendingAfterCleanupKeeps(c) == pending_by_id
\* to_drop = [rid ... if client is ws]; pop each
PendingAfterCleanup(c) ==
    [k \in {j \in DOMAIN pending_by_id : pending_by_id[j] # c} |-> pending_by_id[k]]

\* The receive loop ended (the connection is closed and its frames are read):
\* the finally block.
Cleanup(c) ==
    /\ pc[c] = "recv"
    /\ ws[c] = "closed"
    /\ inbox[c] = NoFrame
    /\ extension_ws' = SlotAfterCleanup(c)
    /\ controller_clients' = controller_clients \ {c}
    /\ pending_by_id' = PendingAfterCleanup(c)
    /\ pc' = [pc EXCEPT ![c] = "done"]
    /\ last' = NoOut
    /\ UNCHANGED <<is_extension, out, ws, stalled, inbox, owed, inflight, broken,
                   calls, mcp>>

\* ---------------------------------------------------------------- specification
\* The bridge with peers that always read: no send suspends.
Next ==
    \E c \in Conns :
        \/ Connect(c)
        \/ PeerClose(c)
        \/ HandleUnparsed(c)
        \/ HandleHello(c)
        \/ HandleEvent(c)
        \/ HandleRequest(c)
        \/ HandleReply(c)
        \/ HandleUnknown(c)
        \/ Cleanup(c)

Spec == Init /\ [][Next]_vars

\* The event loop runs every task that can run: a handler whose receive loop has
\* ended gets to its finally block.
SpecFair == Spec /\ \A c \in Conns : WF_vars(Cleanup(c))

\* ---------------------------------------------------------------- the controller clients
\* The position of a connection in the order of acceptance.
Ord(c) == Cardinality(Earlier(c)) + 1

\* req = {"id": "1", ...}: the id server/src/chrome_mcp/server.py writes
LiteralId == [t |-> "str", v |-> 1]
\* str(uuid.uuid4()): an id no other invocation has (chrome-mcp's server.py)
uuid4(c) == [t |-> "str", v |-> MaxId + Ord(c)]

\* the handler of c waits in its receive, and c is open
Listening(c) == ws[c] = "open" /\ pc[c] = "recv" /\ inbox[c] = NoFrame

\* _send(tool, args) on the connection c it has opened: conn.send(json.dumps(req))
\* reaches the bridge, which routes it; then the invocation waits in conn.recv().
_send(c, req_id) ==
    /\ Listening(c)
    /\ ~is_extension[c]
    /\ calls[c] = NoCall
    /\ RouteRequest(c, Request(req_id, c))
    /\ calls' = [calls EXCEPT ![c] =
            Call(Request(req_id, c),
                 IF last'.op = "forward" /\ last'.res = "sent" THEN last'.to ELSE None,
                 IF last'.op = "error" /\ last'.res = "sent" THEN last'.data ELSE NoFrame)]
    /\ UNCHANGED mcp

SendLiteral(c) == _send(c, LiteralId)
SendUuid4(c) == _send(c, uuid4(c))

\* msg = await conn.recv(): the first frame the bridge delivers to the invocation
Recv(x) ==
    IF last'.res = "sent" /\ last'.to = x /\ calls[x].req # NoFrame /\ calls[x].got = NoFrame
    THEN last'.data
    ELSE calls[x].got

\* The extension answers the request of invocation x, which it has received.
Answer(e, x) ==
    /\ Listening(e)
    /\ calls[x].at = e
    /\ RouteReply(e, ReplyFor(Loads(calls[x].req)))
    /\ calls' = [y \in Conns |->
            Call(calls[y].req, IF y = x THEN None ELSE calls[y].at, Recv(y))]
    /\ UNCHANGED mcp

\* _send returns what it received, and leaving `async with` closes the connection
Return(c) ==
    /\ calls[c].got # NoFrame
    /\ PeerClose(c)

\* Tool invocations of the two servers of the repository against one bridge; the
\* connection that sends hello is the extension and answers what it receives.
NextClients ==
    \E c \in Conns :
        \/ Connect(c)
        \/ HandleHello(c) /\ calls[c] = NoCall
        \/ SendLiteral(c)
        \/ SendUuid4(c)
        \/ \E x \in Conns : Answer(c, x)
        \/ Return(c)
        \/ Cleanup(c)

SpecClients == Init /\ [][NextClients]_vars

\* The bridge with peers that keep the protocol (keys unique in flight, every
\* reply genuine) and may stop reading; a peer that has stopped reading may be
\* disconnected.
NextStall ==
    \E c \in Conns :
        \/ Connect(c)
        \/ PeerClose(c) /\ c \in stalled
        \/ Stall(c)
        \/ \E f \in PeerFrames(c) : PeerSend(c, f)
        \/ HandleUnparsed(c)
        \/ HandleHello(c)
        \/ HandleEvent(c)
        \/ HandleRequest(c) /\ ~broken'
        \/ HandleReply(c) /\ ~broken'
        \/ HandleUnknown(c)
        \/ SendOk(c)
        \/ SendFail(c)
        \/ Cleanup(c)

SpecStall == Init /\ [][NextStall]_vars

\* ---------------------------------------------------------------- the shapes of frames
\* the JSON number 1, whose str() is the id "1" of LiteralId
NumberId == [t |-> "num", v |-> LiteralId.v]

\* a JSON text whose value is no object (a number, a string, a list)
ScalarFrame == Raw("js", Scalar)
\* objects that match no shape: an id alone, a tool alone
IdOnly == Raw("js", Obj(Absent, Absent, LiteralId, Absent, Absent, Absent))
ToolOnly == Raw("py", Obj(Absent, "navigate", NoId, Absent, Absent, Absent))
\* a hello that also carries tool and id
HelloWithTool(c) == Raw("js", Obj("hello", "navigate", LiteralId, Absent, Absent, c))
\* an event other than hello that also carries tool, id and ok
EventWithFields(c) == Raw("js", Obj("log", "navigate", LiteralId, "true", Absent, c))
\* an event field with the empty string as value, on a request
EmptyEventRequest(c) == Raw("py", Obj("", "navigate", LiteralId, Absent, Absent, c))
\* a request that also carries ok
RequestWithOk(c) == Raw("py", Obj(Absent, "navigate", LiteralId, "true", Absent, c))
\* the answer to the request q, its id written as a number
NumReplyFor(q) ==
    Raw("js", Obj(Absent, Absent, [t |-> "num", v |-> q.id.v], "true", Absent, q.data))

\* what the peer of c may send: every shape the if-chain tells apart
Shapes(c) ==
    {Garbage, ScalarFrame, EmptyObject, IdOnly, ToolOnly, Hello, HelloWithTool(c),
     LogEvent, EventWithFields(c), EmptyEventRequest(c), RequestWithOk(c),
     Request(LiteralId, c), Request(NumberId, c),
     ForgedReply(LiteralId), ForgedReply(NumberId)}
        \cup {ReplyFor(q) : q \in owed[c]}
        \cup {NumReplyFor(q) : q \in {r \in owed[c] : r.id.t = "str"}}

\* the frames a peer sends just before it closes: the "{}" of the connection
\* test, the request of a caller that gives up waiting
ClosingFrames(c) == {EmptyObject, Request(LiteralId, c)}

\* the body of the receive loop on the frame `raw`: one branch of the if-chain
OnFrame(c, raw) ==
    \/ OnUnparsed(c, raw)
    \/ OnHello(c, raw)
    \/ OnEvent(c, raw)
    \/ RouteRequest(c, raw)
    \/ RouteReply(c, raw)
    \/ OnUnknown(c, raw)

ReceiveUnparsed(c) ==
    \E raw \in ArrivingOf(c, Shapes(c)) : OnUnparsed(c, raw) /\ UNCHANGED <<calls, mcp>>
ReceiveHello(c) ==
    \E raw \in ArrivingOf(c, Shapes(c)) : OnHello(c, raw) /\ UNCHANGED <<calls, mcp>>
ReceiveEvent(c) ==
    \E raw \in ArrivingOf(c, Shapes(c)) : OnEvent(c, raw) /\ UNCHANGED <<calls, mcp>>
ReceiveRequest(c) ==
    \E raw \in ArrivingOf(c, Shapes(c)) : RouteRequest(c, raw) /\ UNCHANGED <<calls, mcp>>
ReceiveReply(c) ==
    \E raw \in ArrivingOf(c, Shapes(c)) : RouteReply(c, raw) /\ UNCHANGED <<calls, mcp>>
ReceiveUnknown(c) ==
    \E raw \in ArrivingOf(c, Shapes(c)) : OnUnknown(c, raw) /\ UNCHANGED <<calls, mcp>>

\* ws.send(f) then ws.close(): the frame is read after the connection has closed
SendAndClose(c) ==
    /\ Listening(c)
    /\ calls[c] = NoCall
    /\ \E f \in ClosingFrames(c) :
        /\ inbox' = [inbox EXCEPT ![c] = f]
        /\ broken' = EmitBroken(c, f)
        /\ owed' = KeepOwed(broken', EmitOwed(c, f))
        /\ inflight' = KeepInflight(broken', EmitInflight(c, f))
        /\ calls' = [calls EXCEPT ![c] = Call(f, None, NoFrame)]
    /\ ws' = [ws EXCEPT ![c] = "closed"]
    /\ stalled' = stalled \ {c}
    /\ last' = NoOut
    /\ UNCHANGED <<bridge, is_extension, pc, out, mcp>>

\* The bridge with two peers that send frames of every shape, and may close
\* right after a frame.
NextFrames ==
    \E c \in Conns :
        \/ Connect(c) /\ c \in Earlier("c")
        \/ PeerClose(c)
        \/ SendAndClose(c)
        \/ ReceiveUnparsed(c)
        \/ ReceiveHello(c)
        \/ ReceiveEvent(c)
        \/ ReceiveRequest(c)
        \/ ReceiveReply(c)
        \/ ReceiveUnknown(c)
        \/ Cleanup(c)

SpecFrames == Init /\ [][NextFrames]_vars

\* ---------------------------------------------------------------- the embedded bridge
\* _BridgeServer (chrome-mcp/src/chrome_mcp/server.py) is BridgeServer line for
\* line except in its reply branch, `if target and not target.closed:`, and in
\* having no `except Exception` around its receive loop.

\* target.closed, on a connection object that has the attribute
closed(to) == ws[to] # "open"

\* The reply branch where `target.closed` can be read: the reply is sent to an
\* open target and sent nowhere otherwise.
EmbeddedReplySent(c, raw) ==
    /\ ~LoadsFails(raw)
    /\ LET msg == Loads(raw)
           target == PopTarget(Str(msg.id))
       IN
        /\ ~IsHello(msg) /\ ~IsEvent(msg) /\ ~IsRequest(msg)
        /\ IsReply(msg)
        /\ pending_by_id' = PopRest(Str(msg.id))
        /\ IF target # None /\ ~closed(target)
              THEN safe_send("reply", c, raw, target, Dumps(msg))
              ELSE Drop(c, raw)
        /\ UNCHANGED <<extension_ws, controller_clients, is_extension>>

\* The reply branch where the connection object has no attribute `closed` (the
\* case the comment at line 79 names): with a target found, `target.closed`
\* raises AttributeError, which nothing catches; the finally block runs and the
\* handler ends, and the server closes the connection of a handler that ended.
EmbeddedReplyRaises(c, raw) ==
    /\ ~LoadsFails(raw)
    /\ LET msg == Loads(raw)
           target == PopTarget(Str(msg.id))
           rest == PopRest(Str(msg.id))
       IN
        /\ ~IsHello(msg) /\ ~IsEvent(msg) /\ ~IsRequest(msg)
        /\ IsReply(msg)
        /\ target # None
        /\ extension_ws' = SlotAfterCleanup(c)
        /\ controller_clients' = controller_clients \ {c}
        /\ pending_by_id' = [k \in {j \in DOMAIN rest : rest[j] # c} |-> rest[k]]
        /\ pc' = [pc EXCEPT ![c] = "done"]
        /\ ws' = [ws EXCEPT ![c] = "closed"]
        /\ stalled' = stalled \ {c}
        /\ inbox' = [inbox EXCEPT ![c] = NoFrame]
        /\ broken' = IF inbox[c] = NoFrame THEN EmitBroken(c, raw) ELSE broken
        /\ owed' = KeepOwed(broken', OwedAfterRead(c, raw))
        /\ inflight' = KeepInflight(broken', InflightAfterRead(c, raw))
        /\ last' = Step("drop", c, raw, None, NoFrame, "none")
        /\ UNCHANGED <<is_extension, out>>

\* the reply branch of _BridgeServer.handle_client, on either connection class
EmbeddedRouteReply(c, raw) ==
    \/ EmbeddedReplySent(c, raw)
    \/ EmbeddedReplyRaises(c, raw)

EmbeddedReply(c) ==
    \E raw \in Arriving(c) :
        /\ EmbeddedRouteReply(c, raw)
        /\ UNCHANGED <<calls, mcp>>

\* _BridgeServer with peers that always read
NextEmbedded ==
    \E c \in Conns :
        \/ Connect(c)
        \/ PeerClose(c)
        \/ HandleUnparsed(c)
        \/ HandleHello(c)
        \/ HandleEvent(c)
        \/ HandleRequest(c)
        \/ EmbeddedReply(c)
        \/ HandleUnknown(c)
        \/ Cleanup(c)

SpecEmbedded == Init /\ [][NextEmbedded]_vars

\* ---------------------------------------------------------------- the MCP server
\* ChromeMCPServer (src/mcp_server.py; SimpleMCPServer is the same code): a
\* WebSocket server that takes every connection for the extension, and
\* send_tool_request, which the MCP tools call.  The steps are the code between
\* two awaits of the handler task and of the calling task.

\* what ChromeMCPServer leaves alone
notMcp == <<bridge, is_extension, pc, out, ws, stalled, inbox, owed, inflight, broken,
          last, calls>>

\* handle_client starts: self.websocket = websocket; self.connected = True
Accept(c) ==
    /\ socket[c] = "idle"
    /\ \A x \in Earlier(c) : socket[x] # "idle"
    /\ socket' = [socket EXCEPT ![c] = "open"]
    /\ websocket' = c
    /\ connected' = TRUE
    /\ UNCHANGED <<message_id, pending_requests, request, refused, notMcp>>

\* the peer closes its connection
ExtensionClose(c) ==
    /\ socket[c] = "open"
    /\ socket' = [socket EXCEPT ![c] = "closed"]
    /\ UNCHANGED <<websocket, connected, message_id, pending_requests, request,
                   refused, notMcp>>

\* finally: self.websocket = None; self.connected = False
Finally(c) ==
    /\ websocket' = None
    /\ connected' = FALSE
    /\ socket' = [socket EXCEPT ![c] = "done"]

\* the receive loop ended: the connection is closed
Disconnected(c) ==
    /\ socket[c] = "closed"
    /\ Finally(c)
    /\ UNCHANGED <<message_id, pending_requests, request, refused, notMcp>>

\* A message with the id i arrives, with ok true or false.  An id in
\* pending_requests is popped and its future completed; set_result and
\* set_exception raise InvalidStateError on a future that is cancelled, which
\* neither except clause of the handler catches: the finally block runs and the
\* handler ends.
ToolResponse(c, i, ok) ==
    /\ socket[c] = "open"
    /\ i \in pending_requests
    /\ pending_requests' = pending_requests \ {i}
    /\ IF request[i].fut = "pending"
          THEN /\ request' = [request EXCEPT ![i].fut =
                                    IF ok THEN "result" ELSE "exception"]
               /\ UNCHANGED <<websocket, connected, socket>>
          ELSE /\ Finally(c)
               /\ UNCHANGED request
    /\ UNCHANGED <<message_id, refused, notMcp>>

\* if not self.websocket or not self.connected: raise
NotConnected == websocket = None \/ ~connected

\* send_tool_request up to its first await: the check, the id, the entry, and
\* websocket.send, which raises on a closed connection (the entry is popped)
send_tool_request ==
    IF NotConnected
    THEN /\ refused' = TRUE
         /\ UNCHANGED <<websocket, connected, message_id, pending_requests, socket,
                        request, notMcp>>
    ELSE /\ message_id < MaxCalls
         /\ message_id' = message_id + 1
         /\ refused' = FALSE
         /\ IF socket[websocket] = "open"
               THEN /\ pending_requests' = pending_requests \cup {message_id'}
                    /\ request' = [request EXCEPT ![message_id'] =
                                        [fut |-> "pending", call |-> "waiting"]]
               ELSE /\ pending_requests' = pending_requests \ {message_id'}
                    /\ request' = [request EXCEPT ![message_id'] =
                                        [fut |-> "pending", call |-> "send failed"]]
         /\ UNCHANGED <<websocket, connected, socket, notMcp>>

\* the 10 seconds of wait_for have passed: the future is cancelled, and the
\* calling task is scheduled to resume
Timeout(i) ==
    /\ request[i].call = "waiting"
    /\ request[i].fut = "pending"
    /\ request' = [request EXCEPT ![i].fut = "cancelled"]
    /\ UNCHANGED <<websocket, connected, message_id, pending_requests, socket,
                   refused, notMcp>>

\* the calling task resumes from wait_for: it returns the response, or pops its
\* entry in an except clause and raises
Resume(i) ==
    /\ request[i].call = "waiting"
    /\ request[i].fut \in {"result", "exception", "cancelled"}
    /\ request' = [request EXCEPT ![i].call =
                        IF request[i].fut = "result" THEN "returned"
                        ELSE IF request[i].fut = "exception" THEN "error"
                        ELSE "timeout"]
    /\ pending_requests' =
            IF request[i].fut = "result" THEN pending_requests
            ELSE pending_requests \ {i}
    /\ UNCHANGED <<websocket, connected, message_id, socket, refused, notMcp>>

NextMcp ==
    \/ \E c \in Conns :
            \/ Accept(c)
            \/ ExtensionClose(c)
            \/ Disconnected(c)
            \/ \E i \in 1..MaxCalls, ok \in BOOLEAN : ToolResponse(c, i, ok)
    \/ send_tool_request
    \/ \E i \in 1..MaxCalls : Timeout(i) \/ Resume(i)

SpecMcp == Init /\ [][NextMcp]_vars

TypeOK ==
    /\ extension_ws \in Conns \cup {None}
    /\ controller_clients \subseteq Conns
    /\ DOMAIN pending_by_id \subseteq Keys
    /\ \A k \in DOMAIN pending_by_id : pending_by_id[k] \in Conns
    /\ \A c \in Conns : pc[c] \in {"idle", "recv", "send", "done"}
    /\ \A c \in Conns : ws[c] \in {"idle", "open", "closed"}
    /\ \A c \in Conns : calls[c].at \in Conns \cup {None}

\* ---------------------------------------------------------------- properties
\* the reply-shaped frames of the peers
ReplyShaped ==
    {ReplyFor(Loads(Request(k, o))) : k \in IdVals, o \in Conns}
        \cup {ForgedReply(k) : k \in IdVals}

\* no hello has been received
NoHello == \A c \in Conns : ~is_extension[c]

\* c was the extension and a later hello has taken the slot
Displaced(c) == is_extension[c] /\ extension_ws \notin {c, None}

\* C1: while the peers keep the protocol (correlation ids distinct in flight,
\* replies only for forwarded requests), the extension slot is occupied and the
\* originator is open, the reply the extension sends for a forwarded request is
\* sent in that step, once, to the connection that sent the request and to no
\* other, and its entry is consumed.
C1_RepliesReachOriginator ==
    [][\A c \in Conns, o \in Conns, k \in IdVals :
        LET raw == ReplyFor(Loads(Request(k, o))) IN
        (/\ raw \in Arriving(c)
         /\ RouteReply(c, raw)
         /\ ~broken'
         /\ extension_ws # None
         /\ ws[o] = "open")
            => /\ last' = Step("reply", c, raw, o, Raw("py", Loads(raw)), "sent")
               /\ Str(k) \notin DOMAIN pending_by_id']_vars

\* two controllers have requests in flight and one of them gets its reply
C1_TwoControllersServed ==
    /\ ~broken
    /\ last.op = "reply" /\ last.res = "sent" /\ last.to = "c"
    /\ \E k \in DOMAIN pending_by_id : pending_by_id[k] = "b"

\* C2: a reply-shaped message removes the entry of its id, and a reply whose id
\* has no entry (a further reply, before a request records the id again) is sent
\* to no connection; a reply step makes at most one send.
C2_AtMostOnce ==
    [][\A c \in Conns, raw \in ReplyShaped :
        (raw \in Arriving(c) /\ RouteReply(c, raw))
            => /\ Str(Loads(raw).id) \notin DOMAIN pending_by_id'
               /\ last'.op \in {"reply", "drop"}
               /\ (Str(Loads(raw).id) \notin DOMAIN pending_by_id
                      => last' = Step("drop", c, raw, None, NoFrame, "none"))]_vars

\* a reply of the extension that answers no request it still owes found no
\* entry and was dropped, while a controller is connected
C2_FurtherReplyDropped ==
    /\ last.op = "drop"
    /\ extension_ws = last.c
    /\ \E k \in IdVals : last.raw = ForgedReply(k)
    /\ \E o \in controller_clients : ws[o] = "open"

\* C3: as long as no hello has been received the pending map is empty and the
\* only sends are error replies to the sender itself; every request is answered
\* on its own connection with {id: same, ok: false, error: "extension not
\* connected"}.
C3_NoExtension ==
    /\ [](NoHello => /\ pending_by_id = NoPending
                     /\ extension_ws = None
                     /\ (last.to # None => last.op = "error" /\ last.to = last.c))
    /\ [][\A c \in Conns, k \in IdVals :
            (NoHello /\ Request(k, c) \in Arriving(c) /\ RouteRequest(c, Request(k, c)))
                => last' = Step("error", c, Request(k, c), c,
                                Raw("py", Obj(Absent, Absent, k, "false",
                                              "extension not connected", Absent)),
                                "sent")]_vars

\* two controllers are connected, no hello was received, a request got its error
C3_ErrorWithoutExtension ==
    /\ NoHello
    /\ last.op = "error" /\ last.res = "sent"
    /\ Cardinality(controller_clients) >= 2

\* C4 (as stated): the response router never sends toward a connection that has
\* already closed.
C4_NoSendTowardClosed ==
    ~(/\ last.op = "reply" /\ last.res = "raised"
      /\ last.to # last.c /\ ws[last.to] = "closed")

\* C5: the cleanup of the slot's occupant empties the slot; while the slot is
\* empty every request gets the error reply on its own connection and the
\* pending map is left as it is; only a hello fills the slot again.
C5_ExtensionGone ==
    [][/\ \A c \in Conns : (extension_ws = c /\ Cleanup(c)) => extension_ws' = None
       /\ \A c \in Conns, k \in IdVals :
            (/\ extension_ws = None
             /\ Request(k, c) \in Arriving(c)
             /\ RouteRequest(c, Request(k, c)))
                => /\ last'.op = "error" /\ last'.to = c /\ last'.res = "sent"
                   /\ Loads(last'.data).error = "extension not connected"
                   /\ pending_by_id' = pending_by_id
       /\ (extension_ws = None /\ extension_ws' # None)
            => \E c \in Conns : HandleHello(c)]_vars

\* the extension has disconnected and a later request got the error reply
C5_ErrorAfterExtensionLeft ==
    /\ extension_ws = None
    /\ \E e \in Conns : is_extension[e] /\ pc[e] = "done"
    /\ last.op = "error" /\ last.res = "sent"

\* C6 (as stated): no reply-shaped message of a displaced extension is routed.
C6_OldExtensionIgnored ==
    ~(last.op = "reply" /\ Displaced(last.c) /\ last.to # last.c)

\* C6 (amended): a hello puts its connection in the slot, and a reply-shaped
\* message of the displaced extension is still routed by its id: it is sent to
\* the recorded originator and consumes the entry.
C6_OldExtensionStillRouted ==
    [][/\ \A c \in Conns : HandleHello(c) => extension_ws' = c
       /\ \A c \in Conns, raw \in ReplyShaped :
            (/\ Displaced(c)
             /\ raw \in Arriving(c)
             /\ RouteReply(c, raw)
             /\ Str(Loads(raw).id) \in DOMAIN pending_by_id)
                => /\ last'.op = "reply"
                   /\ last'.to = pending_by_id[Str(Loads(raw).id)]
                   /\ Str(Loads(raw).id) \notin DOMAIN pending_by_id']_vars

\* a displaced extension that is still open had its reply delivered
C6_DisplacedReplyDelivered ==
    /\ last.op = "reply" /\ last.res = "sent"
    /\ Displaced(last.c) /\ ws[last.c] = "open"

C8_OwnReply ==
    \A c \in Conns :
        calls[c].got # NoFrame
            => /\ Loads(calls[c].got).id = Loads(calls[c].req).id
               /\ Loads(calls[c].got).data \in {c, Absent}

\* C9 (as stated): while a send to a stalled connection is outstanding, no reply
\* for another connection, open and reading, waits behind it.
C9_NothingWaitsBehindStalledSend ==
    \A c \in Conns :
        ~(/\ pc[c] = "send"
          /\ out[c].to \in stalled
          /\ IsReplyFrame(inbox[c])
          /\ Str(Loads(inbox[c]).id) \in DOMAIN pending_by_id
          /\ LET o == pending_by_id[Str(Loads(inbox[c]).id)] IN
                o \notin {c, out[c].to} /\ ws[o] = "open" /\ o \notin stalled)

\* what the failure of x leaves as it is: the entries, the membership and the
\* slot of the others
OthersKept(x) ==
    /\ \A k \in DOMAIN pending_by_id :
        pending_by_id[k] # x
            => k \in DOMAIN pending_by_id' /\ pending_by_id'[k] = pending_by_id[k]
    /\ controller_clients' \ {x} = controller_clients \ {x}
    /\ extension_ws # x => extension_ws' = extension_ws

\* C10: a frame that is not JSON or has no known shape changes nothing of the
\* bridge; the disconnect of x leaves the entries, the membership and the slot
\* of the others; a send that raises ends no handler and changes neither the
\* slot, nor the controller set, nor an entry other than the one of the message
\* being routed.
C10_FailuresAreLocal ==
    [][\A x \in Conns :
        /\ (HandleUnparsed(x) \/ HandleUnknown(x)) => bridge' = bridge
        /\ Cleanup(x) => OthersKept(x)
        /\ (last'.res = "raised" /\ last'.c = x)
            => /\ extension_ws' = extension_ws
               /\ controller_clients' = controller_clients
               /\ pc' = pc
               /\ \A k \in DOMAIN pending_by_id :
                    k # Str(Loads(last'.raw).id)
                        => k \in DOMAIN pending_by_id'
                           /\ pending_by_id'[k] = pending_by_id[k]]_vars

\* a connection has disconnected; an entry, a controller and the extension remain
C10_OthersSurvive ==
    \E x \in Conns :
        /\ pc[x] = "done"
        /\ pending_by_id # NoPending
        /\ extension_ws # None
        /\ controller_clients # {}

\* C11 (as stated): no connection both has sent hello and is the originator of
\* a recorded request.
C11_OneRole ==
    \A c \in Conns :
        ~(is_extension[c] /\ \E k \in DOMAIN pending_by_id : pending_by_id[k] = c)

\* C12: the cleanup of a connection runs once its receive loop has ended (the
\* connection is closed, whatever it had sent), and runs once: after it the
\* handler takes no further step, and the connection is never again in the
\* slot, in the controller set or the target of a pending entry.
C12_CleanupOnce ==
    /\ [][\A c \in Conns :
            /\ Cleanup(c) => pc[c] = "recv" /\ pc'[c] = "done"
            /\ pc[c] = "done"
                => /\ pc'[c] = "done"
                   /\ is_extension'[c] = is_extension[c]
                   /\ extension_ws' # c
                   /\ c \notin controller_clients'
                   /\ \A k \in DOMAIN pending_by_id' : pending_by_id'[k] # c]_vars
    /\ \A c \in Conns : (ws[c] = "closed") ~> (pc[c] = "done")

\* the first connection was cleaned up having caused no send and no request in
\* flight, before any other connection was accepted
C12_UnclassifiedCleaned ==
    /\ pc["a"] = "done" /\ ~is_extension["a"]
    /\ ws["b"] = "idle"
    /\ ~broken /\ inflight = NoPending /\ last = NoOut

\* C13: once every accepted connection has run its cleanup, the pending map,
\* the controller set and the extension slot are empty.
C13_NoLeak ==
    (\A c \in Conns : pc[c] \in {"idle", "done"})
        => /\ pending_by_id = NoPending
           /\ controller_clients = {}
           /\ extension_ws = None

\* the three connections, an extension among them and a controller whose
\* request was in flight, have all disconnected
C13_AllGone ==
    /\ \A c \in Conns : pc[c] = "done"
    /\ \E e \in Conns : is_extension[e]
    /\ \E k \in DOMAIN inflight : ~is_extension[inflight[k]]

\* the pending key of the request of invocation x
KeyOf(x) == Str(Loads(calls[x].req).id)

\* C14: a request is recorded under its id with its sender as target, whatever
\* entry the id had, and no other entry changes; the reply to an id goes to the
\* target the id has then and consumes the entry, a reply to an id without
\* entry is dropped; an invocation whose id is no longer recorded for it
\* receives nothing.
C14_ReuseOverwrites ==
    [][/\ \A c \in Conns : \A id \in {LiteralId, uuid4(c)} :
            (extension_ws # None /\ _send(c, id))
                => /\ DOMAIN pending_by_id' = DOMAIN pending_by_id \cup {Str(id)}
                   /\ pending_by_id'[Str(id)] = c
                   /\ \A k \in DOMAIN pending_by_id \ {Str(id)} :
                        pending_by_id'[k] = pending_by_id[k]
       /\ \A e \in Conns, x \in Conns :
            Answer(e, x)
                => IF KeyOf(x) \in DOMAIN pending_by_id
                   THEN /\ last'.op = "reply"
                        /\ last'.to = pending_by_id[KeyOf(x)]
                        /\ KeyOf(x) \notin DOMAIN pending_by_id'
                   ELSE last'.op = "drop"
       /\ \A b \in Conns :
            (/\ calls[b].req # NoFrame
             /\ calls[b].got = NoFrame
             /\ ~(KeyOf(b) \in DOMAIN pending_by_id /\ pending_by_id[KeyOf(b)] = b))
                => calls'[b].got = NoFrame]_vars

\* two invocations used the same id and both were forwarded and answered: the
\* second requester received the reply to the first request, the further reply
\* was dropped, and the first requester has received nothing
C14_SecondRequesterServed ==
    \E b \in Conns, c \in Conns :
        /\ b # c
        /\ calls[b].req # NoFrame /\ KeyOf(b) = KeyOf(c)
        /\ calls[b].at = None /\ calls[b].got = NoFrame
        /\ calls[c].got # NoFrame /\ Loads(calls[c].got).data = b
        /\ last.op = "drop"
        /\ pending_by_id = NoPending

\* C15: a request has one of two outcomes, decided by the slot as it is in that
\* step: with the slot empty one error reply to the sender and the pending map
\* as it was; with the slot occupied the entry id -> sender and the forward of
\* the request to the connection in the slot.
C15_OneOutcome ==
    [][\A c \in Conns, k \in IdVals :
        (Request(k, c) \in Arriving(c) /\ RouteRequest(c, Request(k, c)))
            => IF extension_ws = None
               THEN /\ last'.op = "error" /\ last'.to = c
                    /\ pending_by_id' = pending_by_id
               ELSE /\ last'.op = "forward"
                    /\ last'.to = extension_ws
                    /\ Loads(last'.data) = Loads(Request(k, c))
                    /\ extension_ws' = extension_ws
                    /\ DOMAIN pending_by_id' = DOMAIN pending_by_id \cup {Str(k)}
                    /\ pending_by_id'[Str(k)] = c]_vars

\* a controller's request was forwarded to the slot's occupant while a
\* displaced extension is still open
C15_ForwardedToOccupant ==
    /\ last.op = "forward" /\ last.res = "sent"
    /\ last.to = extension_ws /\ last.c \in controller_clients
    /\ \E d \in Conns : Displaced(d) /\ ws[d] = "open"

\* C16: a hello puts its sender in the slot; the cleanup of the occupant empties
\* the slot and the cleanup of any other connection leaves it (a displaced
\* extension neither clears its successor's slot nor is put back); nothing else
\* changes the slot.
C16_SlotFollowsHello ==
    [][/\ \A c \in Conns : HandleHello(c) => extension_ws' = c
       /\ \A c \in Conns :
            Cleanup(c)
                => extension_ws' = IF extension_ws = c THEN None ELSE extension_ws
       /\ extension_ws' # extension_ws
            => \E c \in Conns : HandleHello(c) \/ Cleanup(c)]_vars

\* a displaced extension has disconnected and its successor, open, keeps the slot
C16_SuccessorKeepsSlot ==
    \E d \in Conns :
        /\ is_extension[d] /\ pc[d] = "done"
        /\ extension_ws \notin {None, d}
        /\ ws[extension_ws] = "open"

\* C17: a hello puts its sender in the slot and takes it out of the controller
\* set, sends nothing, and leaves the pending map; from the slot's occupant it
\* changes nothing.
C17_HelloEffect ==
    [][\A c \in Conns :
        HandleHello(c)
            => /\ extension_ws' = c
               /\ controller_clients' = controller_clients \ {c}
               /\ pending_by_id' = pending_by_id
               /\ last' = NoOut
               /\ extension_ws = c => bridge' = bridge /\ is_extension' = is_extension]_vars

\* connection b holds the slot after a takeover from a, which is still open;
\* nothing was sent and a request is still pending
C17_TakeoverSilent ==
    /\ extension_ws = "b" /\ "b" \notin controller_clients
    /\ Displaced("a") /\ ws["a"] = "open"
    /\ pending_by_id # NoPending
    /\ last = NoOut

\* C18: replies are routed by id alone: a reply-shaped message whose id is
\* pending is sent to the recorded originator and consumes the entry, whichever
\* connection sent it (the slot's occupant, a controller, or a connection that
\* never sent hello).
C18_RoutedByIdAlone ==
    [][\A c \in Conns, raw \in ReplyShaped :
        (/\ raw \in Arriving(c)
         /\ RouteReply(c, raw)
         /\ Str(Loads(raw).id) \in DOMAIN pending_by_id)
            => /\ last'.op = "reply"
               /\ last'.c = c
               /\ last'.to = pending_by_id[Str(Loads(raw).id)]
               /\ Loads(last'.data) = Loads(raw)
               /\ DOMAIN pending_by_id' = DOMAIN pending_by_id \ {Str(Loads(raw).id)}
               /\ \A k \in DOMAIN pending_by_id' : pending_by_id'[k] = pending_by_id[k]]_vars

\* a reply sent in by a connection that never sent hello reached another
\* connection, the originator
C18_ControllerReplyRouted ==
    /\ last.op = "reply" /\ last.res = "sent"
    /\ ~is_extension[last.c] /\ last.c \in controller_clients
    /\ last.to # last.c
    /\ extension_ws \notin {None, last.c}

\* C19: the cleanup of connection x leaves the slot other than x, x out of the
\* controller set and no pending entry with target x, and sends nothing (no
\* error reply for the removed entries); this stays so once x is cleaned up.
C19_CleanupEffect ==
    /\ [][\A x \in Conns :
            Cleanup(x)
                => /\ extension_ws' # x
                   /\ x \notin controller_clients'
                   /\ \A k \in DOMAIN pending_by_id' : pending_by_id'[k] # x
                   /\ last' = NoOut
                   /\ out' = out]_vars
    /\ [](\A x \in Conns :
            pc[x] = "done"
                => /\ extension_ws # x
                   /\ x \notin controller_clients
                   /\ \A k \in DOMAIN pending_by_id : pending_by_id[k] # x)

\* connection x was cleaned up while the extension still owed it a reply: its
\* entry is gone and nothing was sent
C19_EntryReaped ==
    \E x \in Conns : \E k \in DOMAIN inflight :
        /\ pc[x] = "done" /\ inflight[k] = x /\ ~is_extension[x]
        /\ k \notin DOMAIN pending_by_id
        /\ extension_ws # None /\ ws[extension_ws] = "open"
        /\ last = NoOut

KeyOfFrame(raw) == Str(Loads(raw).id)

\* C21: a pending entry leaves the map or changes only in a step that routes a
\* reply-shaped message with its id, in the cleanup of its originator, or in a
\* request step that records the id again; no step removes it for the passing
\* of time.  The cleanup of the slot's occupant keeps every entry of the other
\* connections and sends nothing.
C21_NoTimeout ==
    [][/\ \A k \in DOMAIN pending_by_id :
            (k \notin DOMAIN pending_by_id' \/ pending_by_id'[k] # pending_by_id[k])
                => \/ /\ last'.op \in {"reply", "drop"}
                      /\ KeyOfFrame(last'.raw) = k
                      /\ k \notin DOMAIN pending_by_id'
                   \/ /\ Cleanup(pending_by_id[k])
                      /\ k \notin DOMAIN pending_by_id'
                   \/ /\ last'.op = "forward"
                      /\ KeyOfFrame(last'.raw) = k
                      /\ pending_by_id'[k] = last'.c
       /\ \A e \in Conns :
            (extension_ws = e /\ Cleanup(e))
                => /\ \A k \in DOMAIN pending_by_id :
                        pending_by_id[k] # e
                            => k \in DOMAIN pending_by_id'
                               /\ pending_by_id'[k] = pending_by_id[k]
                   /\ last' = NoOut
                   /\ out' = out]_vars

\* the extension has disconnected and was cleaned up; the entry of a controller
\* that is still open and waiting is still in the map, and nothing was sent
C21_EntryOutlivesExtension ==
    /\ extension_ws = None
    /\ \E e \in Conns : is_extension[e] /\ pc[e] = "done"
    /\ \E k \in DOMAIN pending_by_id :
        /\ ws[pending_by_id[k]] = "open"
        /\ ~is_extension[pending_by_id[k]]
    /\ last = NoOut

\* the handler of c has started and has not run its finally block
Running(c) == pc[c] \in {"recv", "send"}

\* C28: the target of every pending entry is a connection whose handler has not
\* run its cleanup, and an entry is created or changed only by the handler of
\* the connection that becomes its target, while that handler runs.
C28_TargetsNotCleaned ==
    /\ [](\A k \in DOMAIN pending_by_id : Running(pending_by_id[k]))
    /\ [][\A k \in DOMAIN pending_by_id' :
            (k \notin DOMAIN pending_by_id \/ pending_by_id'[k] # pending_by_id[k])
                => /\ last'.op = "forward"
                   /\ last'.c = pending_by_id'[k]
                   /\ pc[last'.c] = "recv"
                   /\ pc'[last'.c] \in {"recv", "send"}]_vars

\* a connection that had a request in flight was cleaned up, and the map still
\* holds the entries of others
C28_OthersStillPending ==
    \E x \in Conns : \E k \in DOMAIN inflight :
        /\ pc[x] = "done" /\ inflight[k] = x
        /\ pending_by_id # NoPending
        /\ \A j \in DOMAIN pending_by_id : pending_by_id[j] # x

\* C29: the slot, when occupied, holds a connection that has sent hello, has not
\* run its cleanup and is not in the controller set; the controller set holds
\* only connections that have not run their cleanup and have not sent hello.
C29_RegistrySound ==
    /\ extension_ws # None
        => /\ is_extension[extension_ws]
           /\ Running(extension_ws)
           /\ extension_ws \notin controller_clients
    /\ \A c \in controller_clients : Running(c) /\ ~is_extension[c]

\* the slot is occupied after a takeover, the displaced extension was cleaned
\* up, and a controller is connected
C29_SlotAndControllers ==
    /\ extension_ws # None
    /\ \E d \in Conns : d # extension_ws /\ is_extension[d] /\ pc[d] = "done"
    /\ controller_clients # {}

\* C26 (as stated, for senders that have not sent hello): a reply-shaped
\* message whose id has no entry is discarded with nothing sent and the map
\* unchanged, and whether an entry is found or not nothing is sent to the
\* connection that sent the reply.
C26_NothingBackToSender ==
    [][\A c \in Conns, raw \in ReplyShaped :
        (raw \in Arriving(c) /\ RouteReply(c, raw))
            => /\ KeyOfFrame(raw) \notin DOMAIN pending_by_id
                    => /\ last' = Step("drop", c, raw, None, NoFrame, "none")
                       /\ pending_by_id' = pending_by_id
               /\ ~is_extension[c] => last'.to # c]_vars

\* C26 as it holds: without an entry the reply is discarded, nothing sent and
\* the map unchanged; with an entry the one send of the step goes to the
\* recorded originator, so the sender is sent something only when it is itself
\* the originator recorded for that id.
C26_UnknownReplyDiscarded ==
    [][\A c \in Conns, raw \in ReplyShaped :
        (raw \in Arriving(c) /\ RouteReply(c, raw))
            => IF KeyOfFrame(raw) \notin DOMAIN pending_by_id
               THEN /\ last' = Step("drop", c, raw, None, NoFrame, "none")
                    /\ pending_by_id' = pending_by_id
                    /\ out' = out /\ pc' = pc
               ELSE /\ last'.op = "reply"
                    /\ last'.to = pending_by_id[KeyOfFrame(raw)]
                    /\ last'.to = c => pending_by_id[KeyOfFrame(raw)] = c]_vars

\* the extension answered a request whose originator had been cleaned up: the
\* reply found no entry and was dropped
C26_LateReplyDropped ==
    /\ ~broken
    /\ last.op = "drop"
    /\ extension_ws = last.c
    /\ KeyOfFrame(last.raw) \in DOMAIN inflight
    /\ pc[inflight[KeyOfFrame(last.raw)]] = "done"

\* C27: when the forward of a request raises, the entry recorded for it is in
\* the map, the slot keeps its occupant, the handler goes on receiving, and the
\* request has reached no peer; as long as the peers keep the protocol a reply
\* is sent only for a request that reached the peer that answers it, so none
\* is sent for this one.
C27_FailedForwardLeavesEntry ==
    /\ [][\A c \in Conns :
            (last'.op = "forward" /\ last'.res = "raised" /\ last'.c = c)
                => /\ KeyOfFrame(last'.raw) \in DOMAIN pending_by_id'
                   /\ pending_by_id'[KeyOfFrame(last'.raw)] = c
                   /\ extension_ws' = extension_ws
                   /\ extension_ws' = last'.to
                   /\ pc'[c] = "recv"
                   /\ ~broken' => Loads(last'.raw) \notin owed'[last'.to]]_vars
    /\ [][(last'.op = "reply" /\ ~broken')
            => \E q \in owed[last'.c] : last'.raw = ReplyFor(q)]_vars

\* the request of an open controller was forwarded to the slot's occupant, which
\* had closed: the send raised
C27_ForwardRaised ==
    /\ ~broken
    /\ last.op = "forward" /\ last.res = "raised"
    /\ last.to = extension_ws /\ last.to # last.c
    /\ ws[last.c] = "open"
    /\ inflight[KeyOfFrame(last.raw)] = last.c

\* the frames that parse to no object or match no shape, and the garbage
Discarded == {Garbage, ScalarFrame, EmptyObject, IdOnly, ToolOnly}

\* C22: a frame that does not parse, a JSON value that is no object, and an
\* object that matches no shape are discarded: nothing is sent, the slot, the
\* controller set and the pending map are as before, and the handler goes on
\* receiving on a connection whose state it has not changed.
C22_UnknownDiscarded ==
    [][\A c \in Conns, raw \in Discarded :
        (raw \in ArrivingOf(c, Shapes(c)) /\ OnFrame(c, raw))
            => /\ OnUnparsed(c, raw) \/ OnUnknown(c, raw)
               /\ bridge' = bridge
               /\ is_extension' = is_extension
               /\ last' = NoOut
               /\ out' = out
               /\ pc'[c] = "recv"
               /\ ws' = ws]_vars

\* the "{}" a peer sent before it closed has been read: the handler is still in
\* its loop and the slot and the pending map are as a request left them
C22_EmptyObjectRead ==
    \E c \in Conns :
        /\ calls[c].req = EmptyObject
        /\ inbox[c] = NoFrame /\ pc[c] = "recv"
        /\ c \in controller_clients
        /\ extension_ws # None
        /\ pending_by_id # NoPending
        /\ last = NoOut

\* C23 (as stated): every object with an event field whose value is not hello
\* is ignored, whatever the value and whatever else the object carries.
C23_OtherEventsIgnored ==
    [][\A c \in Conns : \A raw \in {LogEvent, EventWithFields(c), EmptyEventRequest(c)} :
        (raw \in ArrivingOf(c, Shapes(c)) /\ OnFrame(c, raw))
            => /\ bridge' = bridge
               /\ is_extension' = is_extension
               /\ last' = NoOut]_vars

\* the branches of the if-chain a step of c on `raw` can be
Taken(c, raw) ==
    {n \in {"unparsed", "hello", "event", "request", "reply", "unknown"} :
        \/ n = "unparsed" /\ OnUnparsed(c, raw)
        \/ n = "hello" /\ OnHello(c, raw)
        \/ n = "event" /\ OnEvent(c, raw)
        \/ n = "request" /\ RouteRequest(c, raw)
        \/ n = "reply" /\ RouteReply(c, raw)
        \/ n = "unknown" /\ OnUnknown(c, raw)}

\* C24: every frame takes one branch and only one, in the order hello, other
\* event, request, reply, discard: a hello that carries tool and id installs
\* its sender and is not forwarded, a message with tool, id and ok is routed as
\* a request and consumes no entry, a message with id and ok and no tool is
\* routed as a reply.
C24_OneBranch ==
    /\ [](\A c \in Conns : \A raw \in ArrivingOf(c, Shapes(c)) : ENABLED OnFrame(c, raw))
    /\ [][\A c \in Conns : \A raw \in Shapes(c) :
            (raw \in ArrivingOf(c, Shapes(c)) /\ OnFrame(c, raw))
                => /\ Cardinality(Taken(c, raw)) = 1
                   /\ raw \in {Hello, HelloWithTool(c)}
                        => /\ Taken(c, raw) = {"hello"}
                           /\ extension_ws' = c
                           /\ pending_by_id' = pending_by_id
                           /\ last' = NoOut
                   /\ raw \in {LogEvent, EventWithFields(c)}
                        => Taken(c, raw) = {"event"}
                   /\ raw \in {RequestWithOk(c), Request(LiteralId, c)}
                        => /\ Taken(c, raw) = {"request"}
                           /\ last'.op \in {"error", "forward"}
                           /\ DOMAIN pending_by_id \subseteq DOMAIN pending_by_id'
                           /\ extension_ws # None
                                => pending_by_id'[KeyOfFrame(raw)] = c
                   /\ raw \in {ForgedReply(LiteralId), ForgedReply(NumberId)}
                        => /\ Taken(c, raw) = {"reply"}
                           /\ KeyOfFrame(raw) \notin DOMAIN pending_by_id'
                   /\ raw \in {EmptyObject, IdOnly, ToolOnly, ScalarFrame}
                        => Taken(c, raw) = {"unknown"}]_vars

\* a message with tool, id and ok was forwarded to the extension as a request
\* and its entry is in the map
C24_RequestWithOkForwarded ==
    /\ last.op = "forward" /\ last.res = "sent"
    /\ last.raw = RequestWithOk(last.c)
    /\ last.to = extension_ws /\ last.to # last.c
    /\ KeyOfFrame(last.raw) \in DOMAIN pending_by_id
    /\ pending_by_id[KeyOfFrame(last.raw)] = last.c

\* C25: a send that raises is swallowed: the handler that made it stays in its
\* receive loop, its cleanup does not run, the registration of its connection
\* is as before, and the next frame of a connection that is open is handled.
C25_SendFailureSwallowed ==
    /\ [][\A c \in Conns :
            (last'.c = c /\ last'.res = "raised")
                => /\ pc[c] = "recv" /\ pc'[c] = "recv"
                   /\ out' = out
                   /\ is_extension' = is_extension
                   /\ extension_ws' = extension_ws
                   /\ controller_clients' = controller_clients
                   /\ ~Cleanup(c)]_vars
    /\ [](\A c \in Conns :
            (last.c = c /\ last.res = "raised" /\ ws[c] = "open")
                => /\ Listening(c)
                   /\ \A raw \in Shapes(c) : ENABLED OnFrame(c, raw))

\* the not-connected error for the request of a caller that had gone raised,
\* and the handler is still in its loop
C25_ErrorSendRaised ==
    /\ last.op = "error" /\ last.res = "raised"
    /\ last.to = last.c
    /\ pc[last.c] = "recv"
    /\ last.c \in controller_clients

\* C30: the key of the pending map is the string form of the id: a request
\* with the number 1 and a request with the string "1" write the same entry,
\* a reply with either spelling resolves it, and the not-connected error
\* carries the id as the request did.
C30_KeyIsStringForm ==
    [][/\ \A c \in Conns : \A raw \in {Request(LiteralId, c), Request(NumberId, c)} :
            (raw \in ArrivingOf(c, Shapes(c)) /\ RouteRequest(c, raw))
                => IF extension_ws = None
                   THEN /\ last'.op = "error"
                        /\ Loads(last'.data).id = Loads(raw).id
                        /\ pending_by_id' = pending_by_id
                   ELSE /\ DOMAIN pending_by_id' = DOMAIN pending_by_id \cup {LiteralId.v}
                        /\ pending_by_id'[LiteralId.v] = c
       /\ \A c \in Conns, id \in {LiteralId, NumberId} :
            (/\ ForgedReply(id) \in ArrivingOf(c, Shapes(c))
             /\ RouteReply(c, ForgedReply(id))
             /\ LiteralId.v \in DOMAIN pending_by_id)
                => /\ last'.op = "reply"
                   /\ last'.to = pending_by_id[LiteralId.v]
                   /\ Loads(last'.data).id = id
                   /\ LiteralId.v \notin DOMAIN pending_by_id'
       /\ \A c \in Conns : \A q \in owed[c] :
            (q.id.t = "str" /\ RouteReply(c, NumReplyFor(q)) /\ q.data \in Conns
             /\ Str(q.id) \in DOMAIN pending_by_id /\ pending_by_id[Str(q.id)] = q.data)
                => /\ last'.op = "reply"
                   /\ last'.to = q.data
                   /\ Str(q.id) \notin DOMAIN pending_by_id']_vars

\* the answer to a request sent with the id "1", written with the number 1,
\* reached the connection that sent the request
C30_NumberResolvesString ==
    /\ last.op = "reply" /\ last.res = "sent"
    /\ Loads(last.raw).id = NumberId
    /\ Loads(last.raw).data = last.to
    /\ last.to # last.c
    /\ extension_ws = last.c

\* the send a step has put on the wire, if any
Emitted(l) == IF l.res = "sent" THEN <<l.to, l.data>> ELSE <<>>

\* C31 (as stated): from the same state and on the same frame _BridgeServer
\* makes the step of BridgeServer: the same slot, controller set and pending
\* map after it, the handler still receiving, and the same send on the wire
\* (the send BridgeServer attempts toward a closed target puts nothing there);
\* stated for replies that are not routed to their own sender.
C31_SameAsStandalone ==
    [][\A c \in Conns, raw \in ReplyShaped :
        (/\ raw \in Arriving(c)
         /\ EmbeddedRouteReply(c, raw)
         /\ PopTarget(KeyOfFrame(raw)) # c)
            => LET target == PopTarget(KeyOfFrame(raw)) IN
               /\ extension_ws' = extension_ws
               /\ controller_clients' = controller_clients
               /\ pending_by_id' = PopRest(KeyOfFrame(raw))
               /\ pc'[c] = "recv"
               /\ ws' = ws
               /\ Emitted(last') =
                    IF target # None /\ SendResult(target) = "sent"
                    THEN <<target, Dumps(Loads(raw))>>
                    ELSE <<>>]_vars

\* C32 (as stated): while a connection is open, connected is true and websocket
\* is an open connection, so that send_tool_request does not raise "not
\* connected"; stated for the states in which the connection accepted last is
\* open and every handler whose connection has closed has run its finally
\* block.
C32_ConnectedWhileOpen ==
    (/\ \E c \in Conns :
            /\ socket[c] = "open"
            /\ \A x \in Conns \ Earlier(c) : x = c \/ socket[x] = "idle"
     /\ \A c \in Conns : socket[c] # "closed")
        => /\ connected
           /\ websocket # None
           /\ socket[websocket] = "open"
           /\ ~NotConnected

\* C33 (as stated): message ids only grow and an entry is created for a new id
\* only; a call that has finished has no entry; a call made while not connected
\* changes neither the counter nor the map; a message with the id of a call
\* that has timed out is ignored.
C33_IdsAndEntries ==
    /\ [](\A i \in 1..MaxCalls :
            request[i].call \notin {"none", "waiting"} => i \notin pending_requests)
    /\ [][/\ message_id' >= message_id
          /\ \A i \in pending_requests' \ pending_requests :
                /\ i = message_id' /\ message_id' = message_id + 1
                /\ request[i] = NoRequest
          /\ (NotConnected /\ send_tool_request)
                => /\ message_id' = message_id
                   /\ pending_requests' = pending_requests
                   /\ request' = request
          /\ \A c \in Conns, i \in 1..MaxCalls, ok \in BOOLEAN :
                (request[i].fut = "cancelled" /\ ToolResponse(c, i, ok))
                    => UNCHANGED <<websocket, connected, socket, request>>]_vars

====
